---- MODULE Spec2Model ----
(***************************************************************************)
(* Poultry-farm management canister (src/src/index.ts): the express        *)
(* handlers over the StableBTreeMap stores, modelled as a state machine.   *)
(* One action per route handler; each action is the whole handler.         *)
(*                                                                         *)
(* Numbers are JavaScript numbers restricted to small integers; time is    *)
(* the canister clock in whole minutes (CACHE_DURATION is 5 minutes).      *)
(***************************************************************************)
EXTENDS Integers, Sequences, FiniteSets, TLC

VARIABLES
    productsStorage,      \* index.ts:132  productId -> Product
    ordersStorage,        \* index.ts:137  orderId -> Order
    transactionsStorage,  \* index.ts:134  transactionId -> Transaction
    birdsStorage,         \* index.ts:131  birdId -> Bird
    inventoryStorage,     \* index.ts:133  inventoryId -> Inventory
    healthRecordsStorage, \* index.ts:135  recordId -> HealthRecord
    analyticsStorage,     \* index.ts:136  analyticsId -> Analytics
    cache,                \* index.ts:163  cacheKey(farmId) -> {data, timestamp}
    now,                  \* Date.now() / ic.time(), in minutes
    ticks,                \* how many times the clock has advanced
    nextUuid,             \* uuidv4(): the next fresh identifier
    req,                  \* the request the last handler served
    res,                  \* the response the last handler sent
    pre,                  \* the stores as they were when the last handler started
    lastReport,           \* per farm: the report returned since the last transaction write
    cacheLog,             \* per cache key: the farm and time of the cache.set that wrote it
    chickenStorage,       \* part_002:37  chickenId -> Chicken (legacy canister)
    feedStorage           \* part_002:38  feedId -> Feed (legacy canister)

vars == <<productsStorage, ordersStorage, transactionsStorage, birdsStorage,
          inventoryStorage, healthRecordsStorage, analyticsStorage, cache, now,
          ticks, nextUuid, req, res, pre, lastReport, cacheLog, chickenStorage,
          feedStorage>>

(* The stores of the farm-management routes other than orders and transactions *)
farmStores == <<birdsStorage, inventoryStorage, healthRecordsStorage, analyticsStorage>>

(* The stores of the legacy chicken/feed canister (part_002:37-38) *)
legacyStores == <<chickenStorage, feedStorage>>

----------------------------------------------------------------------------
(* Bounds of the model *)

MaxQty == 2        \* initial product quantities are 0..MaxQty
MaxItemQty == 2    \* a line item asks for 1..MaxItemQty units
MaxItems == 2      \* line items per order payload
MaxCreates == 2    \* create calls (uuidv4 draws) per behaviour
MaxTicks == 2      \* clock advances per behaviour
MaxBirds == 2      \* bird records in the initial bird store
MaxBirdQty == 1    \* a bird record holds 0..MaxBirdQty birds
MaxInvQty == 2     \* an inventory payload has quantity 0..MaxInvQty

(* Program constant: index.ts:164, 5 * 60 * 1000 ms = 5 minutes *)
CACHE_DURATION == 5

Null == "null"
None == [none |-> TRUE]

StoredProductIds == {"p1", "p2"}
MissingProductId == "p3"
ProductIds == StoredProductIds \cup {MissingProductId}
FarmIds == {"f1", "f2"}
Prices == {2}
ItemQtys == 1..MaxItemQty

----------------------------------------------------------------------------
(* JavaScript object spread: { ...defaults, ...body } (index.ts:292-299) *)
Spread(defaults, body) ==
    [k \in DOMAIN defaults \cup DOMAIN body |->
        IF k \in DOMAIN body THEN body[k] ELSE defaults[k]]

(* StableBTreeMap.insert(key, value): insert or replace *)
insert(store, key, value) ==
    [k \in DOMAIN store \cup {key} |-> IF k = key THEN value ELSE store[k]]

(* uuidv4(): a fresh identifier *)
uuidv4 == nextUuid

(* getCurrentDate(): the canister time (index.ts:378-384) *)
getCurrentDate == now

----------------------------------------------------------------------------
(* Order payloads: req.body of POST /orders.  A Product is modelled by the
   fields the handlers read or write: id, quantity, available, updatedAt. *)

LineItems == [productId : ProductIds, quantity : ItemQtys, price : Prices]

ItemLists == UNION {[1..n -> LineItems] : n \in 0..MaxItems}

OrderExtras ==
    { <<>>,
      [totalAmount |-> 0],
      [status |-> "delivered", paymentStatus |-> "paid"] }

OrderBodies ==
    { Spread([farmId |-> "f1", products |-> items], extra) :
        items \in ItemLists, extra \in OrderExtras }

(* Order payloads that break the input constraint of createOrder: every
   line item asks for a quantity <= 0 (the empty list is among them) *)
InvalidItemQtys == {-1, 0}

InvalidOrderBodies ==
    { [farmId |-> "f1", products |-> items] :
        items \in UNION {[1..n -> [productId : ProductIds, quantity : InvalidItemQtys,
                                   price : Prices]] : n \in 0..MaxItems} }

(* Mutant of applyItem: available is recomputed before the decrement *)
applyItemAvailableFirst(store, item) ==
    IF item.productId \in DOMAIN store
    THEN LET product == store[item.productId]
             updated == [product EXCEPT !.quantity = product.quantity - item.quantity,
                                        !.available = product.quantity > 0]
         IN  insert(store, updated.id, updated)
    ELSE store

(* order.products.forEach(item => ...) (index.ts:302-312): one iteration *)
applyItem(store, item) ==
    IF item.productId \in DOMAIN store
    THEN LET product == store[item.productId]
             quantity == product.quantity - item.quantity
             updated == [product EXCEPT !.quantity = quantity,
                                        !.available = quantity > 0]
         IN  insert(store, updated.id, updated)
    ELSE store

(* Mutant of applyItems: every iteration reads the product as it was when
   the handler started, so a repeated product id loses the earlier decrement *)
applyItemsStaleRead(store, items) ==
    [p \in DOMAIN store |->
        LET idx == {i \in 1..Len(items) : items[i].productId = p}
        IN  IF idx = {} THEN store[p]
            ELSE LET last == CHOOSE i \in idx : \A j \in idx : j <= i
                 IN  applyItem(store, items[last])[p]]

RECURSIVE applyItems(_, _)
applyItems(store, items) ==
    IF items = <<>> THEN store
    ELSE applyItems(applyItem(store, Head(items)), Tail(items))

(* The Order object built at index.ts:292-299 *)
newOrder(body) ==
    Spread([id |-> uuidv4,
            createdAt |-> getCurrentDate,
            updatedAt |-> Null,
            status |-> "pending",
            paymentStatus |-> "pending"], body)

Snapshot ==
    [products |-> productsStorage, orders |-> ordersStorage,
     transactions |-> transactionsStorage, birds |-> birdsStorage,
     inventory |-> inventoryStorage, healthRecords |-> healthRecordsStorage,
     analytics |-> analyticsStorage,
     chickens |-> chickenStorage, feeds |-> feedStorage]

(* app.post("/orders") (index.ts:291-316) *)
createOrder(body) ==
    /\ nextUuid <= MaxCreates
    /\ LET order == newOrder(body)
       IN  /\ productsStorage' = applyItems(productsStorage, order.products)
           /\ ordersStorage' = insert(ordersStorage, order.id, order)
           /\ res' = [status |-> 200, body |-> order]
    /\ req' = [op |-> "createOrder", body |-> body]
    /\ pre' = Snapshot
    /\ nextUuid' = nextUuid + 1
    /\ UNCHANGED <<legacyStores, cacheLog,
                   transactionsStorage, cache, now, ticks, lastReport, farmStores>>

----------------------------------------------------------------------------
(* Transaction payloads: req.body of POST /transactions *)

TxTypes == {"sale", "purchase", "expense", "investment"}
Categories == {"eggs"}
Amounts == {40, 100}

TxBodies == [farmId : FarmIds, type : TxTypes, category : Categories, amount : Amounts]

(* app.post("/transactions") (index.ts:215-224) *)
createTransaction(body) ==
    /\ nextUuid <= MaxCreates
    /\ LET transaction == Spread([id |-> uuidv4,
                                  createdAt |-> getCurrentDate,
                                  updatedAt |-> Null], body)
       IN  /\ transactionsStorage' =
                 insert(transactionsStorage, transaction.id, transaction)
           /\ res' = [status |-> 200, body |-> transaction]
    /\ req' = [op |-> "createTransaction", body |-> body]
    /\ pre' = Snapshot
    /\ nextUuid' = nextUuid + 1
    /\ lastReport' = [f \in FarmIds |-> None]
    /\ UNCHANGED <<legacyStores, cacheLog,
                   productsStorage, ordersStorage, cache, now, ticks, farmStores>>

(* StableBTreeMap.values() *)
values(store) == {store[k] : k \in DOMAIN store}

RECURSIVE sumAmounts(_)
sumAmounts(transactions) ==
    IF transactions = {} THEN 0
    ELSE LET tx == CHOOSE t \in transactions : TRUE
         IN  tx.amount + sumAmounts(transactions \ {tx})

(* calculateTotal (index.ts:319-323) *)
calculateTotal(transactions, type) ==
    sumAmounts({tx \in transactions : tx.type = type})

(* groupTransactionsByCategory (index.ts:325-330) *)
groupTransactionsByCategory(transactions) ==
    [c \in {tx.category : tx \in transactions} |->
        sumAmounts({tx \in transactions : tx.category = c})]

(* Mutant of netProfit: purchases and investments are subtracted too *)
netProfitAllOutflows(transactions) ==
    calculateTotal(transactions, "sale") - calculateTotal(transactions, "expense")
        - calculateTotal(transactions, "purchase")
        - calculateTotal(transactions, "investment")

(* netProfit of the report (index.ts:240) *)
netProfit(transactions) ==
    calculateTotal(transactions, "sale") - calculateTotal(transactions, "expense")

(* The report object built at index.ts:233-242 *)
buildReport(farmId) ==
    LET transactions == {tx \in values(transactionsStorage) : tx.farmId = farmId}
    IN  [totalSales |-> calculateTotal(transactions, "sale"),
         totalExpenses |-> calculateTotal(transactions, "expense"),
         totalInvestments |-> calculateTotal(transactions, "investment"),
         netProfit |-> netProfit(transactions),
         transactionsByCategory |-> groupTransactionsByCategory(transactions)]

(* cacheKey = `financial-report-${farmId}` (index.ts:227): one key per farm *)
cacheKey(farmId) == farmId

(* Mutant of isFresh: an entry exactly CACHE_DURATION old still counts as fresh *)
isFreshInclusive(entry) == (now - entry.timestamp) <= CACHE_DURATION

(* The freshness test of getCachedData (index.ts:168) *)
isFresh(entry) == (now - entry.timestamp) < CACHE_DURATION

(* getCachedData (index.ts:166-172) *)
getCachedData(key) ==
    IF key \in DOMAIN cache /\ isFresh(cache[key]) THEN cache[key].data ELSE None

(* app.get("/farms/:farmId/financial-report") (index.ts:226-245) *)
financialReport(farmId) ==
    /\ LET cached == getCachedData(cacheKey(farmId))
       IN  IF cached # None
           THEN /\ res' = [status |-> 200, body |-> cached]
                /\ lastReport' = [lastReport EXCEPT ![farmId] = cached]
                /\ UNCHANGED <<cache, cacheLog>>
           ELSE LET report == buildReport(farmId)
                IN  /\ cache' = insert(cache, cacheKey(farmId),
                                       [data |-> report, timestamp |-> now])
                    /\ cacheLog' = insert(cacheLog, cacheKey(farmId),
                                          [farmId |-> farmId, at |-> now])
                    /\ res' = [status |-> 200, body |-> report]
                    /\ lastReport' = [lastReport EXCEPT ![farmId] = report]
    /\ req' = [op |-> "financialReport", farmId |-> farmId,
               previous |-> lastReport[farmId]]
    /\ pre' = Snapshot
    /\ UNCHANGED <<legacyStores, productsStorage, ordersStorage, transactionsStorage,
                   now, ticks, nextUuid, farmStores>>

(* The canister clock advances between calls, by a minute or by just less
   than the cache duration *)
TickSteps == {1, CACHE_DURATION - 1}

Tick(d) ==
    /\ ticks < MaxTicks
    /\ now' = now + d
    /\ ticks' = ticks + 1
    /\ UNCHANGED <<legacyStores, cacheLog,
                   productsStorage, ordersStorage, transactionsStorage, cache,
                   nextUuid, req, res, pre, lastReport, farmStores>>

----------------------------------------------------------------------------
(* JavaScript numbers produced by a division: an exact fraction in lowest
   terms, NaN (0/0) or Infinity (x/0, x > 0).  Rounding of the binary
   floating-point representation is not modelled. *)

RECURSIVE gcd(_, _)
gcd(a, b) == IF b = 0 THEN a ELSE gcd(b, a % b)

abs(a) == IF a < 0 THEN -a ELSE a

Fraction(n, d) ==
    LET g == gcd(abs(n), d)
    IN  [kind |-> "number", num |-> n \div g, den |-> d \div g]

Zero == Fraction(0, 1)
NaN == [kind |-> "NaN", num |-> 0, den |-> 1]
Infinity == [kind |-> "Infinity", num |-> 1, den |-> 1]
NegInfinity == [kind |-> "Infinity", num |-> -1, den |-> 1]

(* a / b on JavaScript numbers holding the integers a and b *)
divide(a, b) ==
    IF b = 0
    THEN (IF a = 0 THEN NaN ELSE IF a > 0 THEN Infinity ELSE NegInfinity)
    ELSE IF b > 0 THEN Fraction(a, b) ELSE Fraction(-a, -b)

(* x * 100 on a JavaScript number *)
times100(x) == IF x.kind = "number" THEN Fraction(x.num * 100, x.den) ELSE x

(* Bird records: the fields calculateMetrics reads *)
BirdStatuses == {"healthy", "deceased"}
BirdWeights == {0, 2}
BirdFeeds == {0, 3}

BirdShapes ==
    [farmId : FarmIds, quantity : 0..MaxBirdQty, status : BirdStatuses,
     weight : BirdWeights, feedConsumption : BirdFeeds]

(* The bird store holding the given records under the ids 1..n *)
birdStore(shapes) == [k \in DOMAIN shapes |-> Spread(shapes[k], [id |-> k])]

RECURSIVE sumQuantity(_)
sumQuantity(birds) ==
    IF birds = {} THEN 0
    ELSE LET b == CHOOSE x \in birds : TRUE
         IN  b.quantity + sumQuantity(birds \ {b})

RECURSIVE sumFeed(_)
sumFeed(birds) ==
    IF birds = {} THEN 0
    ELSE LET b == CHOOSE x \in birds : TRUE
         IN  b.feedConsumption + sumFeed(birds \ {b})

RECURSIVE sumWeight(_)
sumWeight(birds) ==
    IF birds = {} THEN 0
    ELSE LET b == CHOOSE x \in birds : TRUE
         IN  b.weight * b.quantity + sumWeight(birds \ {b})

(* calculateFCR (index.ts:357-361) *)
calculateFCR(birds) == divide(sumFeed(birds), sumWeight(birds))

(* calculateProductionRate (index.ts:363-366) *)
calculateProductionRate(birds) == 0

(* calculateProfitMargin (index.ts:368-373) *)
calculateProfitMargin(transactions) ==
    LET revenue == calculateTotal(transactions, "sale")
        expenses == calculateTotal(transactions, "expense")
    IN  IF revenue = 0 THEN Zero
        ELSE times100(divide(revenue - expenses, revenue))

(* calculateMetrics (index.ts:332-355) *)
calculateMetrics(birds, transactions) ==
    IF birds = {}
    THEN [mortality_rate |-> Zero,
          feed_conversion_ratio |-> Zero,
          production_rate |-> 0,
          revenue |-> 0,
          expenses |-> 0,
          profit_margin |-> Zero]
    ELSE LET totalBirds == sumQuantity(birds)
             deadBirds == sumQuantity({b \in birds : b.status = "deceased"})
         IN  [mortality_rate |-> times100(divide(deadBirds, totalBirds)),
              feed_conversion_ratio |-> calculateFCR(birds),
              production_rate |-> calculateProductionRate(birds),
              revenue |-> calculateTotal(transactions, "sale"),
              expenses |-> calculateTotal(transactions, "expense"),
              profit_margin |-> calculateProfitMargin(transactions)]

(* The birds and transactions of one farm (the filters of index.ts:275-276) *)
birdsOf(farmId) == {b \in values(birdsStorage) : b.farmId = farmId}
transactionsOf(farmId) == {t \in values(transactionsStorage) : t.farmId = farmId}

(* calculateMetrics applied to the stored records of one farm *)
analyticsMetrics(farmId) ==
    /\ res' = [status |-> 200,
               body |-> calculateMetrics(birdsOf(farmId), transactionsOf(farmId))]
    /\ req' = [op |-> "analyticsMetrics", farmId |-> farmId]
    /\ pre' = Snapshot
    /\ UNCHANGED <<legacyStores, cacheLog,
                   productsStorage, ordersStorage, transactionsStorage, cache, now,
                   ticks, nextUuid, lastReport, farmStores>>

(* Analytics requests: POST /analytics/generate carries farmId and period in
   its body; the route path has no parameter *)
Periods == {"daily", "weekly", "monthly"}
AnalyticsBodies == [farmId : FarmIds, period : Periods]

Undefined == "undefined"

(* req.params of a route: the values of the path's :parameters *)
routeParams(path, pathValues) == [k \in DOMAIN pathValues \cap path |-> pathValues[k]]

(* obj[key] on a JavaScript object: undefined when the key is absent *)
get(obj, key) == IF key \in DOMAIN obj THEN obj[key] ELSE Undefined

(* Mutant of newAnalytics: the record is keyed by a constant id *)
newAnalyticsFixedId(farmId) ==
    [id |-> 1,
     farmId |-> farmId,
     period |-> "monthly",
     metrics |-> calculateMetrics(birdsOf(farmId), transactionsOf(farmId)),
     createdAt |-> getCurrentDate]

(* The Analytics object built at index.ts:275-284 *)
newAnalytics(farmId) ==
    [id |-> uuidv4,
     farmId |-> farmId,
     period |-> "monthly",
     metrics |-> calculateMetrics(birdsOf(farmId), transactionsOf(farmId)),
     createdAt |-> getCurrentDate]

(* app.post("/analytics/generate") (index.ts:273-288): the path
   "/analytics/generate" declares no :farmId, so req.params is empty *)
generateAnalytics(body) ==
    /\ nextUuid <= MaxCreates
    /\ LET params == routeParams({}, <<>>)
           farmId == get(params, "farmId")
           analytics == newAnalytics(farmId)
       IN  /\ analyticsStorage' = insert(analyticsStorage, analytics.id, analytics)
           /\ res' = [status |-> 200, body |-> analytics]
    /\ req' = [op |-> "generateAnalytics", body |-> body]
    /\ pre' = Snapshot
    /\ nextUuid' = nextUuid + 1
    /\ UNCHANGED <<legacyStores, cacheLog,
                   productsStorage, ordersStorage, transactionsStorage, birdsStorage,
                   inventoryStorage, healthRecordsStorage, cache, now, ticks,
                   lastReport>>

----------------------------------------------------------------------------
(* Inventory payloads: req.body of POST /inventory.  The payload may carry an
   id of its own, here the first identifier uuidv4 handed out. *)

InventoryThresholds == {0, 1}
InventoryExtras == { <<>>, [id |-> 1] }

InventoryBodies ==
    { Spread([farmId |-> f, quantity |-> q, minimumThreshold |-> t], extra) :
        f \in FarmIds, q \in 0..MaxInvQty, t \in InventoryThresholds,
        extra \in InventoryExtras }

(* app.post("/inventory") (index.ts:175-188); validateInventory
   (index.ts:144-150) is not mounted on the route *)
createInventory(body) ==
    /\ nextUuid <= MaxCreates
    /\ LET inventory == Spread([id |-> uuidv4,
                                createdAt |-> getCurrentDate,
                                updatedAt |-> Null], body)
       IN  /\ inventoryStorage' = insert(inventoryStorage, inventory.id, inventory)
           /\ res' = [status |-> 200, body |-> inventory]
    /\ req' = [op |-> "createInventory", body |-> body]
    /\ pre' = Snapshot
    /\ nextUuid' = nextUuid + 1
    /\ UNCHANGED <<legacyStores, cacheLog,
                   productsStorage, ordersStorage, transactionsStorage, birdsStorage,
                   healthRecordsStorage, analyticsStorage, cache, now, ticks,
                   lastReport>>

(* Mutant of isLowStock: items at the threshold are not reported *)
isLowStockBelow(inv, farmId) ==
    inv.farmId = farmId /\ inv.quantity < inv.minimumThreshold

(* The filter of index.ts:210 *)
isLowStock(inv, farmId) ==
    inv.farmId = farmId /\ inv.quantity <= inv.minimumThreshold

(* app.post("/inventory/alert-threshold") (index.ts:206-212) *)
lowStockInventory(farmId) ==
    /\ LET allInventory == values(inventoryStorage)
           lowStock == {inv \in allInventory : isLowStock(inv, farmId)}
       IN  res' = [status |-> 200, body |-> lowStock]
    /\ req' = [op |-> "lowStockInventory", farmId |-> farmId]
    /\ pre' = Snapshot
    /\ UNCHANGED <<legacyStores, cacheLog,
                   productsStorage, ordersStorage, transactionsStorage, cache, now,
                   ticks, nextUuid, lastReport, farmStores>>

----------------------------------------------------------------------------
(* Health-record payloads: req.body of POST /health-records.  express.json()
   (index.ts:141) yields nextFollowUp as the JSON value the client sent: a
   number (epoch time) or a string (an ISO-8601 date); t is the time meant. *)

HealthTypes == {"vaccination", "disease"}
FollowUpTimes == {1, CACHE_DURATION}
FollowUpValues == [kind : {"number", "string"}, t : FollowUpTimes]

HealthBodies ==
    [farmId : FarmIds, type : HealthTypes]
    \cup [farmId : FarmIds, type : HealthTypes, nextFollowUp : FollowUpValues]

(* app.post("/health-records") (index.ts:248-257) *)
createHealthRecord(body) ==
    /\ nextUuid <= MaxCreates
    /\ LET record == Spread([id |-> uuidv4,
                             createdAt |-> getCurrentDate,
                             updatedAt |-> Null], body)
       IN  /\ healthRecordsStorage' = insert(healthRecordsStorage, record.id, record)
           /\ res' = [status |-> 200, body |-> record]
    /\ req' = [op |-> "createHealthRecord", body |-> body]
    /\ pre' = Snapshot
    /\ nextUuid' = nextUuid + 1
    /\ UNCHANGED <<legacyStores, cacheLog,
                   productsStorage, ordersStorage, transactionsStorage, birdsStorage,
                   inventoryStorage, analyticsStorage, cache, now, ticks, lastReport>>

(* key in obj and obj[key] is not undefined *)
has(obj, key) == key \in DOMAIN obj

(* ToBoolean of a number or a string holding a date: 0 is falsy *)
truthy(v) == IF v.kind = "number" THEN v.t # 0 ELSE TRUE

(* v > date for a Date on the right: both sides are converted to numbers;
   an ISO-8601 string converts to NaN, and every comparison with NaN is false *)
greaterThanDate(v, date) == v.kind = "number" /\ v.t > date

(* The filter of index.ts:267 *)
isUpcoming(r) ==
    /\ has(r, "nextFollowUp")
    /\ truthy(r.nextFollowUp)
    /\ greaterThanDate(r.nextFollowUp, getCurrentDate)

(* app.get("/farms/:farmId/health-report") (index.ts:259-270) *)
healthReport(farmId) ==
    /\ LET records == {r \in values(healthRecordsStorage) : r.farmId = farmId}
           report ==
               [totalVaccinations |->
                    Cardinality({r \in records : r.type = "vaccination"}),
                activeDiseases |->
                    {r \in records : r.type = "disease" /\ ~has(r, "treatment")},
                upcomingFollowUps |-> {r \in records : isUpcoming(r)}]
       IN  res' = [status |-> 200, body |-> report]
    /\ req' = [op |-> "healthReport", farmId |-> farmId, at |-> now]
    /\ pre' = Snapshot
    /\ UNCHANGED <<legacyStores, cacheLog,
                   productsStorage, ordersStorage, transactionsStorage, cache, now,
                   ticks, nextUuid, lastReport, farmStores>>

----------------------------------------------------------------------------
(* The legacy chicken/feed canister (src/unnamed/part_002; part_003 is the
   same interface written with Opt.match) *)

Breeds == {"kienyeji", "broiler"}
ChickenAges == {1}
ChickenWeights == {2}
EggCounts == {0, 5}
FeedNames == {"maize"}
FeedQuantities == {0, 3}
ExpiryDates == {9}

(* The ids a caller may name: every id uuidv4 can have issued, and one more *)
LegacyIds == 1..(MaxCreates + 1)

ChickenFields ==
    [breed : Breeds, age : ChickenAges, weight : ChickenWeights,
     eggProduction : EggCounts]

FeedFields == [name : FeedNames, quantity : FeedQuantities, expiryDate : ExpiryDates]

(* Result.Ok / Result.Err; the Err text is `${entity} with id=${id} not found` *)
Ok(value) == [Ok |-> value]
Err(entity, id) == [Err |-> [entity |-> entity, id |-> id, text |-> "not found"]]

(* StableBTreeMap.get: an Opt *)
storageGet(store, key) ==
    IF key \in DOMAIN store THEN [Some |-> store[key]] ELSE None

(* Mutant of remove: the entry stays in the map *)
removeKeepsEntry(store, key) == store

(* StableBTreeMap.remove: the map without the key *)
remove(store, key) == [k \in DOMAIN store \ {key} |-> store[k]]

(* The response of getChicken (part_002:43-49) on the store as it is *)
getChickenResult(id) ==
    LET chickenOpt == storageGet(chickenStorage, id)
    IN  IF chickenOpt = None THEN Err("Chicken", id) ELSE Ok(chickenOpt.Some)

(* The response of getFeed (part_002:97-103) on the store as it is *)
getFeedResult(id) ==
    LET feedOpt == storageGet(feedStorage, id)
    IN  IF feedOpt = None THEN Err("Feed", id) ELSE Ok(feedOpt.Some)

(* getChicken (part_002:43-49) *)
getChicken(id) ==
    /\ res' = getChickenResult(id)
    /\ req' = [op |-> "getChicken", id |-> id]
    /\ pre' = Snapshot
    /\ UNCHANGED <<legacyStores, cacheLog, productsStorage, ordersStorage,
                   transactionsStorage, cache, now, ticks, nextUuid, lastReport,
                   farmStores>>

(* createChicken (part_002:55-67) *)
createChicken(fields) ==
    /\ nextUuid <= MaxCreates
    /\ LET chicken == Spread([id |-> uuidv4, vaccinationStatus |-> FALSE,
                              lastHealthCheck |-> now], fields)
       IN  /\ chickenStorage' = insert(chickenStorage, chicken.id, chicken)
           /\ res' = Ok(chicken)
    /\ req' = [op |-> "createChicken", fields |-> fields]
    /\ pre' = Snapshot
    /\ nextUuid' = nextUuid + 1
    /\ UNCHANGED <<feedStorage, cacheLog, productsStorage, ordersStorage,
                   transactionsStorage, cache, now, ticks, lastReport, farmStores>>

(* updateChicken (part_002:69-85) *)
updateChicken(id, fields, vaccinationStatus) ==
    /\ LET chickenOpt == storageGet(chickenStorage, id)
       IN  IF chickenOpt = None
           THEN /\ res' = Err("Chicken", id)
                /\ UNCHANGED chickenStorage
           ELSE LET updatedChicken ==
                        Spread(chickenOpt.Some,
                               Spread(fields,
                                      [vaccinationStatus |-> vaccinationStatus,
                                       lastHealthCheck |-> now]))
                IN  /\ chickenStorage' = insert(chickenStorage, id, updatedChicken)
                    /\ res' = Ok(updatedChicken)
    /\ req' = [op |-> "updateChicken", id |-> id, fields |-> fields,
               vaccinationStatus |-> vaccinationStatus]
    /\ pre' = Snapshot
    /\ UNCHANGED <<feedStorage, cacheLog, productsStorage, ordersStorage,
                   transactionsStorage, cache, now, ticks, nextUuid, lastReport,
                   farmStores>>

(* deleteChicken (part_002:87-93) *)
deleteChicken(id) ==
    /\ LET chickenOpt == storageGet(chickenStorage, id)
       IN  /\ chickenStorage' = remove(chickenStorage, id)
           /\ res' = IF chickenOpt = None THEN Err("Chicken", id)
                     ELSE Ok(chickenOpt.Some)
    /\ req' = [op |-> "deleteChicken", id |-> id]
    /\ pre' = Snapshot
    /\ UNCHANGED <<feedStorage, cacheLog, productsStorage, ordersStorage,
                   transactionsStorage, cache, now, ticks, nextUuid, lastReport,
                   farmStores>>

(* recordVaccination (part_002:154-166) *)
recordVaccination(chickenId) ==
    /\ LET chickenOpt == storageGet(chickenStorage, chickenId)
       IN  IF chickenOpt = None
           THEN /\ res' = Err("Chicken", chickenId)
                /\ UNCHANGED chickenStorage
           ELSE LET updatedChicken ==
                        Spread(chickenOpt.Some,
                               [vaccinationStatus |-> TRUE,
                                lastHealthCheck |-> now])
                IN  /\ chickenStorage' =
                          insert(chickenStorage, chickenId, updatedChicken)
                    /\ res' = Ok(updatedChicken)
    /\ req' = [op |-> "recordVaccination", id |-> chickenId]
    /\ pre' = Snapshot
    /\ UNCHANGED <<feedStorage, cacheLog, productsStorage, ordersStorage,
                   transactionsStorage, cache, now, ticks, nextUuid, lastReport,
                   farmStores>>

(* getFeed (part_002:97-103) *)
getFeed(id) ==
    /\ res' = getFeedResult(id)
    /\ req' = [op |-> "getFeed", id |-> id]
    /\ pre' = Snapshot
    /\ UNCHANGED <<legacyStores, cacheLog, productsStorage, ordersStorage,
                   transactionsStorage, cache, now, ticks, nextUuid, lastReport,
                   farmStores>>

(* createFeed (part_002:109-119) *)
createFeed(fields) ==
    /\ nextUuid <= MaxCreates
    /\ LET feed == Spread([id |-> uuidv4, purchaseDate |-> now], fields)
       IN  /\ feedStorage' = insert(feedStorage, feed.id, feed)
           /\ res' = Ok(feed)
    /\ req' = [op |-> "createFeed", fields |-> fields]
    /\ pre' = Snapshot
    /\ nextUuid' = nextUuid + 1
    /\ UNCHANGED <<chickenStorage, cacheLog, productsStorage, ordersStorage,
                   transactionsStorage, cache, now, ticks, lastReport, farmStores>>

(* updateFeed (part_002:121-134) *)
updateFeed(id, fields) ==
    /\ LET feedOpt == storageGet(feedStorage, id)
       IN  IF feedOpt = None
           THEN /\ res' = Err("Feed", id)
                /\ UNCHANGED feedStorage
           ELSE LET updatedFeed == Spread(feedOpt.Some, fields)
                IN  /\ feedStorage' = insert(feedStorage, id, updatedFeed)
                    /\ res' = Ok(updatedFeed)
    /\ req' = [op |-> "updateFeed", id |-> id, fields |-> fields]
    /\ pre' = Snapshot
    /\ UNCHANGED <<chickenStorage, cacheLog, productsStorage, ordersStorage,
                   transactionsStorage, cache, now, ticks, nextUuid, lastReport,
                   farmStores>>

(* deleteFeed (part_002:136-142) *)
deleteFeed(id) ==
    /\ LET feedOpt == storageGet(feedStorage, id)
       IN  /\ feedStorage' = remove(feedStorage, id)
           /\ res' = IF feedOpt = None THEN Err("Feed", id) ELSE Ok(feedOpt.Some)
    /\ req' = [op |-> "deleteFeed", id |-> id]
    /\ pre' = Snapshot
    /\ UNCHANGED <<chickenStorage, cacheLog, productsStorage, ordersStorage,
                   transactionsStorage, cache, now, ticks, nextUuid, lastReport,
                   farmStores>>

----------------------------------------------------------------------------
(* The server after construction (index.ts:139-163): an empty cache, the
   clock at 0, no request served yet *)
InitServer ==
    /\ cache = <<>>
    /\ cacheLog = <<>>
    /\ chickenStorage = <<>>
    /\ feedStorage = <<>>
    /\ now = 0
    /\ ticks = 0
    /\ nextUuid = 1
    /\ req = [op |-> "none"]
    /\ res = [status |-> 0]
    /\ pre = Snapshot
    /\ lastReport = [f \in FarmIds |-> None]

(* The order route starts from a product store that satisfies the Product
   invariants (quantity >= 0, available <=> quantity > 0, updatedAt null);
   no route of index.ts creates or removes a Product. *)
InitOrders ==
    /\ productsStorage \in
         { f \in [StoredProductIds -> [id : StoredProductIds, quantity : 0..MaxQty,
                                       available : BOOLEAN, updatedAt : {Null}]] :
             \A p \in StoredProductIds :
                 /\ f[p].id = p
                 /\ f[p].available = (f[p].quantity > 0) }
    /\ ordersStorage = <<>>
    /\ transactionsStorage = <<>>
    /\ birdsStorage = <<>>
    /\ inventoryStorage = <<>>
    /\ healthRecordsStorage = <<>>
    /\ analyticsStorage = <<>>
    /\ InitServer

NextOrders == \E body \in OrderBodies : createOrder(body)

SpecOrders == InitOrders /\ [][NextOrders]_vars

(* The routes that create their own records start from an empty repository *)
InitReports ==
    /\ productsStorage = <<>>
    /\ ordersStorage = <<>>
    /\ transactionsStorage = <<>>
    /\ birdsStorage = <<>>
    /\ inventoryStorage = <<>>
    /\ healthRecordsStorage = <<>>
    /\ analyticsStorage = <<>>
    /\ InitServer

NextReports ==
    \/ \E body \in TxBodies : createTransaction(body)
    \/ \E farmId \in FarmIds : financialReport(farmId)
    \/ \E d \in TickSteps : Tick(d)

SpecReports == InitReports /\ [][NextReports]_vars

(* The analytics routes start from a bird store of well-formed Bird records
   (quantity >= 0); no route of index.ts creates or removes a Bird. *)
InitBirds ==
    /\ productsStorage = <<>>
    /\ ordersStorage = <<>>
    /\ transactionsStorage = <<>>
    /\ \E n \in 0..MaxBirds :
         \E shapes \in [1..n -> BirdShapes] : birdsStorage = birdStore(shapes)
    /\ inventoryStorage = <<>>
    /\ healthRecordsStorage = <<>>
    /\ analyticsStorage = <<>>
    /\ InitServer

NextMetrics == \E farmId \in FarmIds : analyticsMetrics(farmId)

SpecMetrics == InitBirds /\ [][NextMetrics]_vars

NextAnalytics ==
    \/ \E body \in TxBodies : createTransaction(body)
    \/ \E body \in AnalyticsBodies : generateAnalytics(body)

SpecAnalytics == InitBirds /\ [][NextAnalytics]_vars

NextInvalidOrders == \E body \in InvalidOrderBodies : createOrder(body)

SpecInvalidOrders == InitOrders /\ [][NextInvalidOrders]_vars

NextInventory ==
    \/ \E body \in InventoryBodies : createInventory(body)
    \/ \E farmId \in FarmIds : lowStockInventory(farmId)

SpecInventory == InitReports /\ [][NextInventory]_vars

NextHealth ==
    \/ \E body \in HealthBodies : createHealthRecord(body)
    \/ \E farmId \in FarmIds : healthReport(farmId)
    \/ \E d \in TickSteps : Tick(d)

SpecHealth == InitReports /\ [][NextHealth]_vars

(* The legacy canister starts with both stores empty (part_002:37-38) *)
NextLegacy ==
    \/ \E fields \in ChickenFields : createChicken(fields)
    \/ \E id \in LegacyIds : getChicken(id)
    \/ \E id \in LegacyIds, fields \in ChickenFields, v \in BOOLEAN :
          updateChicken(id, fields, v)
    \/ \E id \in LegacyIds : deleteChicken(id)
    \/ \E id \in LegacyIds : recordVaccination(id)
    \/ \E fields \in FeedFields : createFeed(fields)
    \/ \E id \in LegacyIds : getFeed(id)
    \/ \E id \in LegacyIds, fields \in FeedFields : updateFeed(id, fields)
    \/ \E id \in LegacyIds : deleteFeed(id)
    \/ \E d \in TickSteps : Tick(d)

SpecLegacy == InitReports /\ [][NextLegacy]_vars

Init == InitOrders

Next ==
    \/ NextOrders \/ NextReports \/ NextMetrics \/ NextAnalytics
    \/ NextInventory \/ NextHealth \/ NextInvalidOrders \/ NextLegacy

Spec == Init /\ [][Next]_vars

----------------------------------------------------------------------------
(* Properties of order fulfillment (spec sections 4.1, 8) *)

LastWasCreateOrder == req.op = "createOrder"

RECURSIVE UnitsOrdered(_, _)
UnitsOrdered(items, productId) ==
    IF items = <<>> THEN 0
    ELSE (IF Head(items).productId = productId THEN Head(items).quantity ELSE 0)
         + UnitsOrdered(Tail(items), productId)

RECURSIVE LineTotal(_)
LineTotal(items) ==
    IF items = <<>> THEN 0
    ELSE Head(items).quantity * Head(items).price + LineTotal(Tail(items))

IsMissing(products, item) == item.productId \notin DOMAIN products

IsInsufficient(products, item) ==
    /\ item.productId \in DOMAIN products
    /\ item.quantity > products[item.productId].quantity

SomeItemFails(products, items) ==
    \E i \in 1..Len(items) :
        IsMissing(products, items[i]) \/ IsInsufficient(products, items[i])

(* C1: a createOrder call with a line item whose product is missing or whose
   quantity exceeds the product's stock leaves the product store as it was
   and persists no Order. *)
C1_AllOrNothing ==
    (LastWasCreateOrder /\ SomeItemFails(pre.products, req.body.products))
        => (productsStorage = pre.products /\ ordersStorage = pre.orders)

(* C2: when every line item's product exists with sufficient quantity, each
   product's quantity after the call is its quantity before minus the units
   ordered for it over all line items, and products the order does not name
   are unchanged. *)
C2_ExactDecrement ==
    (LastWasCreateOrder /\ ~SomeItemFails(pre.products, req.body.products))
        => /\ DOMAIN productsStorage = DOMAIN pre.products
           /\ \A p \in DOMAIN productsStorage :
                /\ productsStorage[p].quantity =
                     pre.products[p].quantity - UnitsOrdered(req.body.products, p)
                /\ UnitsOrdered(req.body.products, p) = 0
                     => productsStorage[p] = pre.products[p]

C2_Witness ==
    /\ LastWasCreateOrder
    /\ ~SomeItemFails(pre.products, req.body.products)
    /\ \E i, j \in 1..Len(req.body.products) :
         /\ i # j
         /\ req.body.products[i].productId = req.body.products[j].productId
    /\ \E p \in DOMAIN productsStorage : UnitsOrdered(req.body.products, p) = 0
    /\ productsStorage # pre.products

(* C3: every persisted Order has totalAmount equal to the sum of
   quantity * price over its line items. *)
C3_TotalAmount ==
    \A id \in DOMAIN ordersStorage :
        /\ "totalAmount" \in DOMAIN ordersStorage[id]
        /\ ordersStorage[id].totalAmount = LineTotal(ordersStorage[id].products)

(* C4: no stored Product has a negative quantity. *)
C4_StockNonNegative ==
    \A p \in DOMAIN productsStorage : productsStorage[p].quantity >= 0

(* C5: a createOrder call with a line item naming a product that is not in
   the product store ends in a failure, not in a created Order. *)
C5_MissingProductFails ==
    (LastWasCreateOrder
        /\ \E i \in 1..Len(req.body.products) :
             IsMissing(pre.products, req.body.products[i]))
        => (res.status # 200 /\ ordersStorage = pre.orders)

(* C6: every persisted Order has status pending and paymentStatus pending. *)
C6_CreatedPending ==
    \A id \in DOMAIN ordersStorage :
        /\ ordersStorage[id].status = "pending"
        /\ ordersStorage[id].paymentStatus = "pending"

(* C7: every stored Product has available = TRUE exactly when its quantity
   is greater than 0. *)
C7_AvailableIffInStock ==
    \A p \in DOMAIN productsStorage :
        productsStorage[p].available <=> (productsStorage[p].quantity > 0)

C7_Witness ==
    /\ LastWasCreateOrder
    /\ \E p \in DOMAIN productsStorage :
         /\ pre.products[p].available
         /\ productsStorage[p].quantity = 0
         /\ ~productsStorage[p].available
    /\ \E p \in DOMAIN productsStorage :
         /\ productsStorage[p].quantity < pre.products[p].quantity
         /\ productsStorage[p].available

----------------------------------------------------------------------------
(* Properties of the financial report (spec sections 4.2, 4.4, 8) *)

LastWasFinancialReport == req.op = "financialReport"

StoredTotal(farmId, type) ==
    sumAmounts({tx \in values(transactionsStorage) :
                    tx.farmId = farmId /\ tx.type = type})

(* C8: the report a financialReport call returns carries the totals of the
   transactions stored for that farm when the call is made. *)
C8_ReportReflectsStore ==
    LastWasFinancialReport
        => /\ res.body.totalSales = StoredTotal(req.farmId, "sale")
           /\ res.body.totalExpenses = StoredTotal(req.farmId, "expense")
           /\ res.body.totalInvestments = StoredTotal(req.farmId, "investment")

(* C9: a financialReport call returns the same report as the previous call
   for that farm when no transaction was written in between, and changes no
   stored entity. *)
C9_Deterministic ==
    LastWasFinancialReport
        => /\ req.previous # None => res.body = req.previous
           /\ productsStorage = pre.products
           /\ ordersStorage = pre.orders
           /\ transactionsStorage = pre.transactions

(* C10: every report returned has netProfit = totalSales - totalExpenses. *)
C10_NetProfit ==
    LastWasFinancialReport
        => res.body.netProfit = res.body.totalSales - res.body.totalExpenses

C10_Witness ==
    /\ LastWasFinancialReport
    /\ res.body.totalSales = 100
    /\ res.body.totalExpenses = 40
    /\ res.body.netProfit = 60
----------------------------------------------------------------------------
(* Properties of the analytics metrics (spec sections 4.2, 8) *)

LastWasAnalyticsMetrics == req.op = "analyticsMetrics"
LastWasGenerateAnalytics == req.op = "generateAnalytics"

(* C11: mortality_rate is exactly 0 whenever the total bird quantity of the
   farm is 0, also when the farm has bird records whose quantities are 0. *)
C11_MortalityZeroGuard ==
    (LastWasAnalyticsMetrics /\ sumQuantity(birdsOf(req.farmId)) = 0)
        => res.body.mortality_rate = Zero

(* C12: feed_conversion_ratio is exactly 0 whenever the farm's total of
   weight * quantity is 0, and total feed / total weight otherwise. *)
C12_FcrGuard ==
    LastWasAnalyticsMetrics
        => LET totalFeed == sumFeed(birdsOf(req.farmId))
               totalWeight == sumWeight(birdsOf(req.farmId))
           IN  res.body.feed_conversion_ratio =
                   IF totalWeight = 0 THEN Zero ELSE Fraction(totalFeed, totalWeight)

(* C13: the metrics of generateAnalytics(F, period) have revenue and expenses
   equal to the sale and expense totals of the transactions stored for F. *)
C13_RevenueFromTransactions ==
    LastWasGenerateAnalytics
        => /\ res.body.metrics.revenue = StoredTotal(req.body.farmId, "sale")
           /\ res.body.metrics.expenses = StoredTotal(req.body.farmId, "expense")

(* C14: generateAnalytics adds exactly one Analytics record, keeps every
   earlier Analytics record unchanged, and leaves the Bird and Transaction
   stores as they were. *)
C14_AppendOnly ==
    LastWasGenerateAnalytics
        => /\ Cardinality(DOMAIN analyticsStorage) =
                Cardinality(DOMAIN pre.analytics) + 1
           /\ \A id \in DOMAIN pre.analytics :
                /\ id \in DOMAIN analyticsStorage
                /\ analyticsStorage[id] = pre.analytics[id]
           /\ birdsStorage = pre.birds
           /\ transactionsStorage = pre.transactions

C14_Witness ==
    /\ LastWasGenerateAnalytics
    /\ pre.analytics # <<>>
    /\ birdsStorage # <<>>
    /\ Cardinality(DOMAIN analyticsStorage) = 2

(* C15: the Analytics record persisted by generateAnalytics(farmId, period)
   carries the requested farmId and the requested period. *)
C15_RequestedFarmAndPeriod ==
    LastWasGenerateAnalytics
        => /\ res.body.farmId = req.body.farmId
           /\ res.body.period = req.body.period
           /\ analyticsStorage[res.body.id] = res.body
----------------------------------------------------------------------------
(* Properties of the alerting queries and the health report (spec 4.2, 4.3) *)

LastWasLowStock == req.op = "lowStockInventory"
LastWasHealthReport == req.op = "healthReport"

(* C16: lowStockInventory(F) returns exactly the stored inventory items of
   farm F whose quantity is at most their minimumThreshold, and leaves the
   inventory store unchanged. *)
C16_LowStockExact ==
    LastWasLowStock
        => /\ res.body \subseteq values(inventoryStorage)
           /\ \A inv \in values(inventoryStorage) :
                inv \in res.body
                    <=> (inv.farmId = req.farmId
                            /\ inv.quantity <= inv.minimumThreshold)
           /\ inventoryStorage = pre.inventory

C16_Witness ==
    /\ LastWasLowStock
    /\ \E inv \in res.body : inv.quantity = inv.minimumThreshold /\ inv.quantity > 0
    /\ \E inv \in values(inventoryStorage) :
         /\ inv.farmId # req.farmId
         /\ inv.quantity <= inv.minimumThreshold
         /\ inv \notin res.body

(* C17: healthReport(F).upcomingFollowUps is exactly the set of stored health
   records of farm F whose nextFollowUp is present and strictly later than
   the time of the call, and the call changes no stored record. *)
C17_UpcomingFollowUps ==
    LastWasHealthReport
        => /\ res.body.upcomingFollowUps =
                {r \in values(healthRecordsStorage) :
                    /\ r.farmId = req.farmId
                    /\ has(r, "nextFollowUp")
                    /\ r.nextFollowUp.t > req.at}
           /\ healthRecordsStorage = pre.healthRecords

----------------------------------------------------------------------------
(* Properties of entity creation and mutation (spec sections 3, 4.1, 7) *)

IsInvalidOrder(body) ==
    \/ Len(body.products) = 0
    \/ \E i \in 1..Len(body.products) : body.products[i].quantity <= 0

(* C18: a createOrder call whose line-item list is empty or holds an item
   with quantity <= 0 fails, persists no Order and changes no Product
   quantity. *)
C18_InvalidInputRejected ==
    (LastWasCreateOrder /\ IsInvalidOrder(req.body))
        => /\ res.status # 200
           /\ ordersStorage = pre.orders
           /\ \A p \in DOMAIN productsStorage :
                productsStorage[p].quantity = pre.products[p].quantity

AddsOneKeepsRest(store, before) ==
    /\ Cardinality(DOMAIN store) = Cardinality(DOMAIN before) + 1
    /\ \A id \in DOMAIN before : id \in DOMAIN store /\ store[id] = before[id]

(* C19: every create operation stores the new entity under a fresh id: the
   collection has exactly one more record and every earlier record is
   unchanged, whatever the payload contains. *)
C19_CreateNeverOverwrites ==
    /\ req.op = "createInventory" => AddsOneKeepsRest(inventoryStorage, pre.inventory)
    /\ req.op = "createTransaction"
         => AddsOneKeepsRest(transactionsStorage, pre.transactions)
    /\ req.op = "createHealthRecord"
         => AddsOneKeepsRest(healthRecordsStorage, pre.healthRecords)
    /\ req.op = "createOrder" => AddsOneKeepsRest(ordersStorage, pre.orders)

IsNamed(items, productId) ==
    \E i \in 1..Len(items) : items[i].productId = productId

(* C20: a Product rewritten by createOrder has a non-null updatedAt after
   the call, and a Product no order has named has updatedAt = null. *)
C20_UpdatedAtTracksMutation ==
    /\ LastWasCreateOrder
         => \A p \in DOMAIN productsStorage :
                IsNamed(req.body.products, p) => productsStorage[p].updatedAt # Null
    /\ \A p \in DOMAIN productsStorage :
         (\A id \in DOMAIN ordersStorage : ~IsNamed(ordersStorage[id].products, p))
             => productsStorage[p].updatedAt = Null

----------------------------------------------------------------------------
(* Properties of the legacy chicken/feed interface (spec section 7) *)

ChickenOpsById == {"updateChicken", "deleteChicken", "recordVaccination"}
FeedOpsById == {"updateFeed", "deleteFeed"}

LegacyStoresUnchanged ==
    /\ chickenStorage = pre.chickens
    /\ feedStorage = pre.feeds

(* C21: updateChicken, deleteChicken, recordVaccination, updateFeed and
   deleteFeed called with an id that is not in the store return the Err
   naming that id and leave both stores unchanged; a delete of a present id
   returns the stored record, and a get of that id then returns the
   not-found Err. *)
C21_NotFoundAndDelete ==
    /\ (req.op \in ChickenOpsById /\ req.id \notin DOMAIN pre.chickens)
          => /\ res = Err("Chicken", req.id)
             /\ LegacyStoresUnchanged
    /\ (req.op \in FeedOpsById /\ req.id \notin DOMAIN pre.feeds)
          => /\ res = Err("Feed", req.id)
             /\ LegacyStoresUnchanged
    /\ (req.op = "deleteChicken" /\ req.id \in DOMAIN pre.chickens)
          => /\ res = Ok(pre.chickens[req.id])
             /\ getChickenResult(req.id) = Err("Chicken", req.id)
    /\ (req.op = "deleteFeed" /\ req.id \in DOMAIN pre.feeds)
          => /\ res = Ok(pre.feeds[req.id])
             /\ getFeedResult(req.id) = Err("Feed", req.id)
    /\ (req.op = "getChicken" /\ req.id \notin DOMAIN chickenStorage)
          => res = Err("Chicken", req.id)
    /\ (req.op = "getFeed" /\ req.id \notin DOMAIN feedStorage)
          => res = Err("Feed", req.id)

(* A stored chicken was deleted and is no longer in the store *)
C21_Witness ==
    /\ req.op = "deleteChicken"
    /\ req.id \in DOMAIN pre.chickens
    /\ res = Ok(pre.chickens[req.id])
    /\ req.id \notin DOMAIN chickenStorage

----------------------------------------------------------------------------
(* Properties of the report cache (index.ts:162-172, 226-245) *)

(* The age, at this moment, of the cache entry under a key *)
entryAge(key) == now - cache[key].timestamp

(* What a financialReport(farmId) step must satisfy *)
CacheStepOk(farmId) ==
    LET key == cacheKey(farmId)
    IN  /\ cache' = cache
            => /\ key \in DOMAIN cache
               /\ res'.body = cache[key].data
               /\ cacheLog[key].farmId = farmId
               /\ cacheLog[key].at = cache[key].timestamp
               /\ now - cacheLog[key].at < CACHE_DURATION
        /\ (key \in DOMAIN cache /\ entryAge(key) >= CACHE_DURATION)
            => /\ res'.body = buildReport(farmId)
               /\ cache'[key] = [data |-> buildReport(farmId), timestamp |-> now]
               /\ \A k \in DOMAIN cache \ {key} :
                      k \in DOMAIN cache' /\ cache'[k] = cache[k]

(* C22: a report served from the cache was computed for the same farmId less
   than CACHE_DURATION before the call that serves it; when the entry is
   CACHE_DURATION old or older, the next financialReport call for that farm
   recomputes the report from the transaction store and replaces the entry. *)
C22_CacheFreshness ==
    [][\A farmId \in FarmIds : financialReport(farmId) => CacheStepOk(farmId)]_vars

(* A report was served from the cache after a transaction write, the entry
   then grew CACHE_DURATION old, and this call replaced it with a recomputed
   report that differs from the one served before *)
C22_Witness ==
    /\ LastWasFinancialReport
    /\ req.previous # None
    /\ res.body # req.previous
    /\ cacheKey(req.farmId) \in DOMAIN cache
    /\ cache[cacheKey(req.farmId)].data = res.body
    /\ cache[cacheKey(req.farmId)].timestamp >= CACHE_DURATION
    /\ cacheLog[cacheKey(req.farmId)].farmId = req.farmId

====
